---------------------------- MODULE Spec2Model ----------------------------
(***************************************************************************)
(* A model of forward_ad_usage.py, the forward-mode AD usage script.       *)
(*                                                                         *)
(* The script is a straight-line program; its state is the Python          *)
(* namespace (env), the tensors it has allocated (heap), and the state of  *)
(* the torch.autograd.forward_ad library it drives: the current dual level *)
(* and the tangent associated with every tensor (fwgrad).  Every statement *)
(* of the script is one action, named after its line.  Calls into torch    *)
(* are modelled by what the script's own comments and assertions say they  *)
(* do, and otherwise by torch's documented behaviour.                      *)
(*                                                                         *)
(* The script has three parts, none of which reads a name or a tensor     *)
(* bound by an earlier one: basic usage (lines 30-69), the two module      *)
(* routes (lines 82-118) and the custom Function (lines 130-167).  Each    *)
(* part starts outside every dual level with no tangent left on any        *)
(* tensor, and is a specification of its own: SpecBasic, SpecModule,       *)
(* SpecCustom.  SpecFn applies fn to freely drawn dual arguments.          *)
(***************************************************************************)
EXTENDS Integers, Sequences, FiniteSets, TLC

VARIABLES
    pc,       \* the next statement of the script, or "done" / "AssertionError"
    env,      \* Python names -> tensor id (0: unbound)
    heap,     \* tensor id -> tensor (shape, strides, storage, base)
    fwgrad,   \* tensor id -> the forward gradient slot of that tensor
    born,     \* tensor id -> which dual_level context it was created in (0: none)
    level,    \* the current dual level, -1 outside every context
    epoch,    \* how many dual_level contexts have been entered so far
    dicts,    \* the dictionaries params, tangents, dual_params
    mods,     \* the nn.Linear objects: registered parameters and plain attributes
    ctx,      \* the contexts of the calls of Fn.apply
    frame     \* the running call of Fn.apply, and gradcheck's progress

vars == <<pc, env, heap, fwgrad, born, level, epoch, dicts, mods, ctx, frame>>

----------------------------------------------------------------------------
(* Bounds *)

\* Tensors are Dim x Dim (10 x 10 in the script).
Dim == 2
\* The entries of a random tensor are drawn from 0 .. MaxVal.
MaxVal == 4
\* nn.Linear(5, 5) has Feat input and Feat output features.
Feat == 2
\* The input of the module sections has Batch rows (16 in the script).
Batch == 2
\* The entries of the random tensors of the module sections are drawn from
\* 0 .. MaxParam.
MaxParam == 1

----------------------------------------------------------------------------
(* Tensors *)

None == <<>>
Some(x) == <<x>>

Numel(shape) == shape[1] * shape[2]

\* The strides of a freshly allocated (contiguous, row-major) tensor.
ContiguousStrides(shape) == <<shape[2], 1>>

\* Entry (i, j), 0-based, of tensor t: storage is addressed through strides.
At(t, i, j) == t.data[1 + i * t.strides[1] + j * t.strides[2]]

\* The entries of t in logical (row-major) order, whatever its layout.
Logical(t) ==
    [k \in 1..Numel(t.shape) |->
        At(t, (k - 1) \div t.shape[2], (k - 1) % t.shape[2])]

\* Two tensors hold the same values.
ValueEqual(a, b) == a.shape = b.shape /\ Logical(a) = Logical(b)

\* Same metadata: same sizes and same layout.
SameMeta(a, b) == a.shape = b.shape /\ a.strides = b.strides

\* A fresh contiguous tensor holding `vals` (in logical order).
FromLogical(shape, vals) ==
    [shape |-> shape, strides |-> ContiguousStrides(shape), data |-> vals, base |-> 0]

\* The entries a random tensor is given: (a + b*k) mod (maxv+1), k = 0, 1, ...
\* for an offset a and a step b.
RandomData(n, a, b, maxv) == [k \in 1..n |-> (a + b * (k - 1)) % (maxv + 1)]

\* torch.randn(shape) of lines 30, 31, 62, 149, 150: a fresh contiguous tensor.
Randn(shape) ==
    { FromLogical(shape, RandomData(Numel(shape), a, b, MaxVal)) :
        a \in 0..MaxVal, b \in 0..1 }

\* The random tensors of the module sections: nn.Linear's initial
\* parameters, torch.randn(16, 5), torch.rand_like(p).
RandParam(shape) ==
    { FromLogical(shape, RandomData(Numel(shape), a, 1, MaxParam)) :
        a \in 0..MaxParam }

\* tensor.T of the tensor with id `id`: a view on the same storage with the
\* sizes and the strides swapped.
Transpose(t, id) ==
    [shape |-> <<t.shape[2], t.shape[1]>>,
     strides |-> <<t.strides[2], t.strides[1]>>,
     data |-> t.data,
     base |-> IF t.base = 0 THEN id ELSE t.base]

\* Faulty variant of CopyWithMeta: the storage is copied as it lies, without
\* regard to the layout it is read through.
CopyWithMetaBad(src, like) ==
    [shape |-> like.shape, strides |-> like.strides, data |-> src.data, base |-> 0]

\* The copy make_dual takes of a tangent whose layout differs: a new tensor
\* with the metadata of `like` holding the values of `src`.
CopyWithMeta(src, like) ==
    [shape |-> like.shape, strides |-> like.strides,
     data |-> [k \in 1..Numel(like.shape) |->
                 LET ij == CHOOSE p \in (0..like.shape[1]-1) \X (0..like.shape[2]-1) :
                              1 + p[1] * like.strides[1] + p[2] * like.strides[2] = k
                 IN  At(src, ij[1], ij[2])],
     base |-> 0]

\* A view of the tensor with id `id`: same storage, same metadata.
ViewOf(t, id) ==
    [shape |-> t.shape, strides |-> t.strides, data |-> t.data,
     base |-> IF t.base = 0 THEN id ELSE t.base]

----------------------------------------------------------------------------
(* The forward-AD library state *)

\* A tensor's forward gradient slot: empty, or a tangent at a dual level.
NoGrad == [level |-> -1, tangent |-> 0]

\* fwAD.unpack_dual(t): a namedtuple with primal and tangent; the tangent is
\* None when the tensor has none.
UnpackDual(h, g, id) ==
    [primal |-> Logical(h[id]),
     tangent |-> g[id].tangent]

\* Faulty variant of ExitDualLevel: no tangent is destroyed.
ExitDualLevelKeep(g, l) == g

\* Faulty variant of ExitDualLevel: only the tangent of the dual tensor made
\* last is destroyed.
ExitDualLevelLast(g, l) ==
    [i \in DOMAIN g |->
        IF g[i].level = l /\ \A j \in DOMAIN g : g[j].level = l => j <= i
        THEN NoGrad ELSE g[i]]

\* Leaving a dual_level context destroys the tangents of all dual tensors
\* created in it.
ExitDualLevel(g, l) ==
    [i \in DOMAIN g |-> IF g[i].level = l THEN NoGrad ELSE g[i]]


\* fwAD.make_dual(p, t) at dual level l, on a heap h whose next free id is
\* Len(h) + 1: the dual tensor is a new view of the primal.  A tangent with
\* the primal's layout is used as it is; otherwise its values are copied
\* into a new tensor with the primal's metadata.
MakeDual(h, p, t, l) ==
    LET id   == Len(h) + 1
        same == SameMeta(h[t], h[p])
    IN  [id      |-> id,
         tensors |-> IF same THEN <<ViewOf(h[p], p)>>
                     ELSE <<ViewOf(h[p], p), CopyWithMeta(h[t], h[p])>>,
         grads   |-> IF same THEN <<[level |-> l, tangent |-> t]>>
                     ELSE <<[level |-> l, tangent |-> id + 1], NoGrad>>]

----------------------------------------------------------------------------
(* Dual values and the arithmetic on them *)

\* The dual value a tensor stands for: its entries and, when it has one, the
\* entries of its tangent.
DualOf(h, g, id) ==
    [primal  |-> Logical(h[id]),
     tangent |-> IF g[id].tangent = 0 THEN None
                 ELSE Some(Logical(h[g[id].tangent]))]

Zeros(n) == [k \in 1..n |-> 0]

\* Faulty variant of TangentOrZero: a missing tangent counts as all ones.
TangentOrOne(d) ==
    IF d.tangent = None THEN [k \in 1..Len(d.primal) |-> 1] ELSE d.tangent[1]

\* A tensor without a tangent counts as having a zero-filled tangent of the
\* same shape.
TangentOrZero(d) ==
    IF d.tangent = None THEN Zeros(Len(d.primal)) ELSE d.tangent[1]

\* d ** n, elementwise.
DualPow(d, n) ==
    [primal  |-> [k \in 1..Len(d.primal) |-> d.primal[k] ^ n],
     tangent |-> IF d.tangent = None THEN None
                 ELSE Some([k \in 1..Len(d.primal) |->
                              n * d.primal[k] ^ (n - 1) * d.tangent[1][k]])]

\* a + b, elementwise.
DualAdd(a, b) ==
    [primal  |-> [k \in 1..Len(a.primal) |-> a.primal[k] + b.primal[k]],
     tangent |-> IF a.tangent = None /\ b.tangent = None THEN None
                 ELSE Some([k \in 1..Len(a.primal) |->
                              TangentOrZero(a)[k] + TangentOrZero(b)[k]])]

\* Faulty variant of fn: x ** 2 + y ** 3.
fnCube(x, y) == DualAdd(DualPow(x, 2), DualPow(y, 3))

\* def fn(x, y): return x ** 2 + y ** 2
fn(x, y) == DualAdd(DualPow(x, 2), DualPow(y, 2))

\* A dual value put on a heap whose next free id is n + 1: the tensor, and
\* after it its tangent when it has one.
StoreDual(n, shape, d, l) ==
    [id      |-> n + 1,
     tensors |-> IF d.tangent = None THEN <<FromLogical(shape, d.primal)>>
                 ELSE <<FromLogical(shape, d.primal), FromLogical(shape, d.tangent[1])>>,
     grads   |-> IF d.tangent = None THEN <<NoGrad>>
                 ELSE <<[level |-> l, tangent |-> n + 2], NoGrad>>]

----------------------------------------------------------------------------
(* The script's namespace *)

EmptyEnv ==
    [primal |-> 0, tangent |-> 0, dual_input |-> 0, dual_input_alt |-> 0,
     plain_tensor |-> 0, dual_output |-> 0, jvp |-> 0,
     model |-> 0, input |-> 0, out |-> 0, jvp2 |-> 0,
     name |-> 0, p |-> 0, iter |-> 0]

\* A dictionary keyed by parameter name: the tensor id, 0 when the key is absent.
EmptyDict == [weight |-> 0, bias |-> 0]

EmptyDicts ==
    [params |-> EmptyDict, tangents |-> EmptyDict, dual_params |-> EmptyDict]

\* No call of Fn.apply is running and gradcheck has not started.
NoFrame ==
    [ret |-> "", ctx |-> 0, foo |-> 0, result |-> 0, gI |-> 0, gO |-> 0,
     phase |-> "", k |-> 0]

\* Allocate the tensors ts with the forward gradient slots gs.
Alloc(ts, gs) ==
    /\ heap' = heap \o ts
    /\ fwgrad' = fwgrad \o gs
    /\ born' = born \o [k \in 1..Len(ts) |-> IF level >= 0 THEN epoch ELSE 0]

\* `with fwAD.dual_level():` is entered.
EnterDualLevel(next) ==
    /\ level' = level + 1
    /\ epoch' = epoch + 1
    /\ pc' = next
    /\ UNCHANGED <<env, heap, fwgrad, born, dicts, mods, ctx, frame>>

\* Faulty variant of LeaveDualLevel: the tangent tensors themselves are
\* zeroed, not only their association with the dual tensors.
LeaveDualLevelFree(next) ==
    /\ fwgrad' = ExitDualLevel(fwgrad, level)
    /\ heap' = [i \in DOMAIN heap |->
                  IF \E j \in DOMAIN fwgrad :
                        fwgrad[j].level = level /\ fwgrad[j].tangent = i
                  THEN [heap[i] EXCEPT !.data = Zeros(Len(heap[i].data))]
                  ELSE heap[i]]
    /\ level' = level - 1
    /\ pc' = next
    /\ UNCHANGED <<env, born, epoch, dicts, mods, ctx, frame>>

\* The with block is left: the tangents of its dual tensors are destroyed.
LeaveDualLevel(next) ==
    /\ fwgrad' = ExitDualLevel(fwgrad, level)
    /\ level' = level - 1
    /\ pc' = next
    /\ UNCHANGED <<env, heap, born, epoch, dicts, mods, ctx, frame>>

\* `assert cond` inside a with block: a failing assertion leaves the block
\* (the context manager's exit runs) and ends the script.
AssertInLevel(cond, next) ==
    /\ pc' = IF cond THEN next ELSE "AssertionError"
    /\ fwgrad' = IF cond THEN fwgrad ELSE ExitDualLevel(fwgrad, level)
    /\ level' = IF cond THEN level ELSE level - 1
    /\ UNCHANGED <<env, heap, born, epoch, dicts, mods, ctx, frame>>

\* `assert cond` outside every with block.
AssertTop(cond, next) ==
    /\ pc' = IF cond THEN next ELSE "AssertionError"
    /\ UNCHANGED <<env, heap, fwgrad, born, level, epoch, dicts, mods, ctx, frame>>

----------------------------------------------------------------------------
(* Basic usage: lines 30-69 *)

TensorShape == <<Dim, Dim>>

\* primal = torch.randn(10, 10)
L30 ==
    /\ pc = "L30"
    /\ \E t \in Randn(TensorShape) :
          /\ Alloc(<<t>>, <<NoGrad>>)
          /\ env' = [env EXCEPT !.primal = Len(heap) + 1]
    /\ pc' = "L31"
    /\ UNCHANGED <<level, epoch, dicts, mods, ctx, frame>>

\* tangent = torch.randn(10, 10)
L31 ==
    /\ pc = "L31"
    /\ \E t \in Randn(TensorShape) :
          /\ Alloc(<<t>>, <<NoGrad>>)
          /\ env' = [env EXCEPT !.tangent = Len(heap) + 1]
    /\ pc' = "L43"
    /\ UNCHANGED <<level, epoch, dicts, mods, ctx, frame>>

\* with fwAD.dual_level():
L43 == pc = "L43" /\ EnterDualLevel("L52")

\* dual_input = fwAD.make_dual(primal, tangent)
L52 ==
    /\ pc = "L52"
    /\ LET m == MakeDual(heap, env.primal, env.tangent, level)
       IN  /\ Alloc(m.tensors, m.grads)
           /\ env' = [env EXCEPT !.dual_input = m.id]
    /\ pc' = "L53"
    /\ UNCHANGED <<level, epoch, dicts, mods, ctx, frame>>

\* assert fwAD.unpack_dual(dual_input).tangent is tangent
L53 ==
    /\ pc = "L53"
    /\ AssertInLevel(UnpackDual(heap, fwgrad, env.dual_input).tangent = env.tangent, "L57")

\* dual_input_alt = fwAD.make_dual(primal, tangent.T)
\* tangent.T is a temporary: it takes the next id, the dual tensor the one after.
L57 ==
    /\ pc = "L57"
    /\ LET tT == Transpose(heap[env.tangent], env.tangent)
           h1 == Append(heap, tT)
           m  == MakeDual(h1, env.primal, Len(h1), level)
       IN  /\ Alloc(<<tT>> \o m.tensors, <<NoGrad>> \o m.grads)
           /\ env' = [env EXCEPT !.dual_input_alt = m.id]
    /\ pc' = "L58"
    /\ UNCHANGED <<level, epoch, dicts, mods, ctx, frame>>

\* assert fwAD.unpack_dual(dual_input_alt).tangent is not tangent
L58 ==
    /\ pc = "L58"
    /\ AssertInLevel(UnpackDual(heap, fwgrad, env.dual_input_alt).tangent # env.tangent, "L62")

\* plain_tensor = torch.randn(10, 10)
L62 ==
    /\ pc = "L62"
    /\ \E t \in Randn(TensorShape) :
          /\ Alloc(<<t>>, <<NoGrad>>)
          /\ env' = [env EXCEPT !.plain_tensor = Len(heap) + 1]
    /\ pc' = "L63"
    /\ UNCHANGED <<level, epoch, dicts, mods, ctx, frame>>

\* dual_output = fn(dual_input, plain_tensor)
L63 ==
    /\ pc = "L63"
    /\ LET d == fn(DualOf(heap, fwgrad, env.dual_input),
                   DualOf(heap, fwgrad, env.plain_tensor))
           s == StoreDual(Len(heap), heap[env.dual_input].shape, d, level)
       IN  /\ Alloc(s.tensors, s.grads)
           /\ env' = [env EXCEPT !.dual_output = s.id]
    /\ pc' = "L67"
    /\ UNCHANGED <<level, epoch, dicts, mods, ctx, frame>>

\* jvp = fwAD.unpack_dual(dual_output).tangent
L67 ==
    /\ pc = "L67"
    /\ env' = [env EXCEPT !.jvp = UnpackDual(heap, fwgrad, env.dual_output).tangent]
    /\ pc' = "L68"
    /\ UNCHANGED <<heap, fwgrad, born, level, epoch, dicts, mods, ctx, frame>>

\* the with block of line 43 ends
L68 == pc = "L68" /\ LeaveDualLevel("L69")

\* assert fwAD.unpack_dual(dual_output).tangent is None
L69 ==
    /\ pc = "L69"
    /\ AssertTop(UnpackDual(heap, fwgrad, env.dual_output).tangent = 0, "done")

InitBasic ==
    /\ pc = "L30"
    /\ env = EmptyEnv
    /\ heap = <<>>
    /\ fwgrad = <<>>
    /\ born = <<>>
    /\ level = -1
    /\ epoch = 0
    /\ dicts = EmptyDicts
    /\ mods = <<>>
    /\ ctx = <<>>
    /\ frame = NoFrame

NextBasic ==
    \/ L30 \/ L31 \/ L43 \/ L52 \/ L53 \/ L57 \/ L58
    \/ L62 \/ L63 \/ L67 \/ L68 \/ L69

SpecBasic == InitBasic /\ [][NextBasic]_vars


----------------------------------------------------------------------------
(* nn.Module *)

\* The parameter names of nn.Linear, in named_parameters() order.
Names == <<"weight", "bias">>

WeightShape == <<Feat, Feat>>
BiasShape == <<1, Feat>>
InputShape == <<Batch, Feat>>
OutShape == <<Batch, Feat>>

\* getattr(module, name): an instance attribute wins, else the registered
\* parameter.
GetAttr(m, name) ==
    IF m.attrs[name] # 0 THEN m.attrs[name] ELSE m.params[name]

\* Faulty variant of FunctionalGetAttr: the mapping is ignored.
FunctionalGetAttrBad(m, d, name) == GetAttr(m, name)

\* functional_call(module, d, input) runs the module with the tensors of d
\* in place of the parameters of the same names.
FunctionalGetAttr(m, d, name) ==
    IF d[name] # 0 THEN d[name] ELSE GetAttr(m, name)

\* x @ W.T, entry (n, o), of row-major x (Batch x Feat) and W (Feat x Feat).
MatMulT(x, w, n, o) ==
    LET S[i \in 0..Feat] ==
            IF i = 0 THEN 0
            ELSE S[i - 1] + x[(n - 1) * Feat + i] * w[(o - 1) * Feat + i]
    IN  S[Feat]

\* nn.Linear.forward on dual values: input @ weight.T + bias, and the
\* tangent of that by the sum and product rules.
DualLinear(x, w, b) ==
    [primal  |-> [k \in 1..Batch * Feat |->
                    LET n == ((k - 1) \div Feat) + 1
                        o == ((k - 1) % Feat) + 1
                    IN  MatMulT(x.primal, w.primal, n, o) + b.primal[o]],
     tangent |-> IF x.tangent = None /\ w.tangent = None /\ b.tangent = None
                 THEN None
                 ELSE Some([k \in 1..Batch * Feat |->
                    LET n == ((k - 1) \div Feat) + 1
                        o == ((k - 1) % Feat) + 1
                    IN  MatMulT(TangentOrZero(x), w.primal, n, o)
                        + MatMulT(x.primal, TangentOrZero(w), n, o)
                        + TangentOrZero(b)[o]])]

----------------------------------------------------------------------------
(* Usage with modules: lines 82-94, and the stateless API: lines 107-118 *)

\* model = nn.Linear(5, 5): a module with freshly initialised parameters.
NewLinear(next) ==
    /\ \E w \in RandParam(WeightShape), b \in RandParam(BiasShape) :
          /\ Alloc(<<w, b>>, <<NoGrad, NoGrad>>)
          /\ mods' = Append(mods, [params |-> [weight |-> Len(heap) + 1,
                                                bias   |-> Len(heap) + 2],
                                    attrs  |-> EmptyDict])
    /\ env' = [env EXCEPT !.model = Len(mods) + 1]
    /\ pc' = next
    /\ UNCHANGED <<level, epoch, dicts, ctx, frame>>

L82 == pc = "L82" /\ NewLinear("L83")

\* input = torch.randn(16, 5)
L83 ==
    /\ pc = "L83"
    /\ \E t \in RandParam(InputShape) :
          /\ Alloc(<<t>>, <<NoGrad>>)
          /\ env' = [env EXCEPT !.input = Len(heap) + 1]
    /\ pc' = "L85"
    /\ UNCHANGED <<level, epoch, dicts, mods, ctx, frame>>

\* params = {name: p for name, p in model.named_parameters()}
L85 ==
    /\ pc = "L85"
    /\ dicts' = [dicts EXCEPT !.params = mods[env.model].params]
    /\ pc' = "L86"
    /\ UNCHANGED <<env, heap, fwgrad, born, level, epoch, mods, ctx, frame>>

\* tangents = {name: torch.rand_like(p) for name, p in params.items()}
L86 ==
    /\ pc = "L86"
    /\ \E tw \in RandParam(heap[dicts.params.weight].shape),
          tb \in RandParam(heap[dicts.params.bias].shape) :
          /\ Alloc(<<tw, tb>>, <<NoGrad, NoGrad>>)
          /\ dicts' = [dicts EXCEPT !.tangents = [weight |-> Len(heap) + 1,
                                                  bias   |-> Len(heap) + 2]]
    /\ pc' = "L88"
    /\ UNCHANGED <<env, level, epoch, mods, ctx, frame>>

\* with fwAD.dual_level():
L88 == pc = "L88" /\ EnterDualLevel("L89")

\* `for name, p in params.items():` takes the next item, or ends the loop.
ForParams(body, after) ==
    /\ IF env.iter < Len(Names)
       THEN /\ env' = [env EXCEPT !.iter = @ + 1,
                                  !.name = env.iter + 1,
                                  !.p = dicts.params[Names[env.iter + 1]]]
            /\ pc' = body
       ELSE /\ env' = [env EXCEPT !.iter = 0]
            /\ pc' = after
    /\ UNCHANGED <<heap, fwgrad, born, level, epoch, dicts, mods, ctx, frame>>

L89 == pc = "L89" /\ ForParams("L90", "L93")

\* delattr(model, name): the parameter is unregistered.
L90 ==
    /\ pc = "L90"
    /\ mods' = [mods EXCEPT ![env.model].params[Names[env.name]] = 0]
    /\ pc' = "L91"
    /\ UNCHANGED <<env, heap, fwgrad, born, level, epoch, dicts, ctx, frame>>

\* setattr(model, name, fwAD.make_dual(p, tangents[name])): the dual tensor
\* becomes a plain attribute; a tensor that is no nn.Parameter cannot be
\* assigned to a name still registered as a parameter (make_dual has run by then).
L91 ==
    /\ pc = "L91"
    /\ LET nm == Names[env.name]
           m  == MakeDual(heap, env.p, dicts.tangents[nm], level)
           ok == mods[env.model].params[nm] = 0
       IN  /\ Alloc(m.tensors, m.grads)
           /\ mods' = IF ok THEN [mods EXCEPT ![env.model].attrs[nm] = m.id] ELSE mods
           /\ pc' = IF ok THEN "L89" ELSE "TypeError"
    /\ UNCHANGED <<env, level, epoch, dicts, ctx, frame>>

\* out = model(input)
L93 ==
    /\ pc = "L93"
    /\ LET m == mods[env.model]
           d == DualLinear(DualOf(heap, fwgrad, env.input),
                           DualOf(heap, fwgrad, GetAttr(m, "weight")),
                           DualOf(heap, fwgrad, GetAttr(m, "bias")))
           s == StoreDual(Len(heap), OutShape, d, level)
       IN  /\ Alloc(s.tensors, s.grads)
           /\ env' = [env EXCEPT !.out = s.id]
    /\ pc' = "L94"
    /\ UNCHANGED <<level, epoch, dicts, mods, ctx, frame>>

\* jvp = fwAD.unpack_dual(out).tangent
L94 ==
    /\ pc = "L94"
    /\ env' = [env EXCEPT !.jvp = UnpackDual(heap, fwgrad, env.out).tangent]
    /\ pc' = "L95"
    /\ UNCHANGED <<heap, fwgrad, born, level, epoch, dicts, mods, ctx, frame>>

\* the with block of line 88 ends
L95 == pc = "L95" /\ LeaveDualLevel("L107")

\* model = nn.Linear(5, 5): a fresh module
L107 == pc = "L107" /\ NewLinear("L109")

\* dual_params = {}
L109 ==
    /\ pc = "L109"
    /\ dicts' = [dicts EXCEPT !.dual_params = EmptyDict]
    /\ pc' = "L110"
    /\ UNCHANGED <<env, heap, fwgrad, born, level, epoch, mods, ctx, frame>>

\* with fwAD.dual_level():
L110 == pc = "L110" /\ EnterDualLevel("L111")

\* for name, p in params.items():
L111 == pc = "L111" /\ ForParams("L113", "L114")

\* dual_params[name] = fwAD.make_dual(p, tangents[name])
L113 ==
    /\ pc = "L113"
    /\ LET nm == Names[env.name]
           m  == MakeDual(heap, env.p, dicts.tangents[nm], level)
       IN  /\ Alloc(m.tensors, m.grads)
           /\ dicts' = [dicts EXCEPT !.dual_params[nm] = m.id]
    /\ pc' = "L111"
    /\ UNCHANGED <<env, level, epoch, mods, ctx, frame>>

\* out = functional_call(model, dual_params, input)
L114 ==
    /\ pc = "L114"
    /\ LET m == mods[env.model]
           d == DualLinear(DualOf(heap, fwgrad, env.input),
                           DualOf(heap, fwgrad, FunctionalGetAttr(m, dicts.dual_params, "weight")),
                           DualOf(heap, fwgrad, FunctionalGetAttr(m, dicts.dual_params, "bias")))
           s == StoreDual(Len(heap), OutShape, d, level)
       IN  /\ Alloc(s.tensors, s.grads)
           /\ env' = [env EXCEPT !.out = s.id]
    /\ pc' = "L115"
    /\ UNCHANGED <<level, epoch, dicts, mods, ctx, frame>>

\* jvp2 = fwAD.unpack_dual(out).tangent
L115 ==
    /\ pc = "L115"
    /\ env' = [env EXCEPT !.jvp2 = UnpackDual(heap, fwgrad, env.out).tangent]
    /\ pc' = "L116"
    /\ UNCHANGED <<heap, fwgrad, born, level, epoch, dicts, mods, ctx, frame>>

\* the with block of line 110 ends
L116 == pc = "L116" /\ LeaveDualLevel("L118")

\* torch.allclose(a, b) of two tensors; None is no tensor.
AllClose(h, a, b) == a # 0 /\ b # 0 /\ ValueEqual(h[a], h[b])

\* assert torch.allclose(jvp, jvp2)
L118 ==
    /\ pc = "L118"
    /\ pc' = IF env.jvp = 0 \/ env.jvp2 = 0 THEN "TypeError"
             ELSE IF AllClose(heap, env.jvp, env.jvp2) THEN "done"
             ELSE "AssertionError"
    /\ UNCHANGED <<env, heap, fwgrad, born, level, epoch, dicts, mods, ctx, frame>>

InitModule ==
    /\ pc = "L82"
    /\ env = EmptyEnv
    /\ heap = <<>>
    /\ fwgrad = <<>>
    /\ born = <<>>
    /\ level = -1
    /\ epoch = 0
    /\ dicts = EmptyDicts
    /\ mods = <<>>
    /\ ctx = <<>>
    /\ frame = NoFrame

NextModule ==
    \/ L82 \/ L83 \/ L85 \/ L86 \/ L88 \/ L89 \/ L90 \/ L91 \/ L93 \/ L94 \/ L95
    \/ L107 \/ L109 \/ L110 \/ L111 \/ L113 \/ L114 \/ L115 \/ L116 \/ L118

SpecModule == InitModule /\ [][NextModule]_vars


----------------------------------------------------------------------------
(* Custom autograd Function: lines 130-167 *)

\* torch.exp, elementwise.  Tensor entries are integers here, and the
\* exponential is taken to base 2.
Exp(vals) == [k \in 1..Len(vals) |-> 2 ^ vals[k]]

\* a * b, elementwise.
Mul(a, b) == [k \in 1..Len(a) |-> a[k] * b[k]]

\* Fn.apply(input): a new context is made and Fn.forward runs with it; when
\* the input carries a tangent, Fn.jvp runs next with the same context.
Apply(input, ret) ==
    /\ ctx' = Append(ctx, [result |-> 0])
    /\ frame' = [frame EXCEPT !.ret = ret, !.ctx = Len(ctx) + 1, !.foo = input,
                              !.result = 0, !.gI = 0, !.gO = 0]
    /\ pc' = "L133"

\* forward: result = torch.exp(foo)
L133 ==
    /\ pc = "L133"
    /\ Alloc(<<FromLogical(heap[frame.foo].shape, Exp(Logical(heap[frame.foo])))>>,
             <<NoGrad>>)
    /\ frame' = [frame EXCEPT !.result = Len(heap) + 1]
    /\ pc' = "L136"
    /\ UNCHANGED <<env, level, epoch, dicts, mods, ctx>>

\* forward: ctx.result = result
StoreResult(c, i, r) == [c EXCEPT ![i].result = r]

L136 ==
    /\ pc = "L136"
    /\ ctx' = StoreResult(ctx, frame.ctx, frame.result)
    /\ pc' = "L137"
    /\ UNCHANGED <<env, heap, fwgrad, born, level, epoch, dicts, mods, frame>>

\* forward: return result.  With a dual input, jvp is called with the
\* input's tangent; otherwise apply returns.
L137 ==
    /\ pc = "L137"
    /\ IF fwgrad[frame.foo].tangent # 0
       THEN /\ frame' = [frame EXCEPT !.gI = fwgrad[frame.foo].tangent]
            /\ pc' = "L141"
       ELSE /\ frame' = frame
            /\ pc' = frame.ret
    /\ UNCHANGED <<env, heap, fwgrad, born, level, epoch, dicts, mods, ctx>>

\* jvp: gO = gI * ctx.result
L141 ==
    /\ pc = "L141"
    /\ IF ctx[frame.ctx].result = 0
       THEN /\ pc' = "AttributeError"
            /\ UNCHANGED <<heap, fwgrad, born, frame>>
       ELSE /\ Alloc(<<FromLogical(heap[frame.gI].shape,
                                   Mul(Logical(heap[frame.gI]),
                                       Logical(heap[ctx[frame.ctx].result])))>>,
                     <<NoGrad>>)
            /\ frame' = [frame EXCEPT !.gO = Len(heap) + 1]
            /\ pc' = "L144"
    /\ UNCHANGED <<env, level, epoch, dicts, mods, ctx>>

\* Faulty variant of DelResult: the result stays on the context.
DelResultBad(c, i) == c

\* jvp: del ctx.result
DelResult(c, i) == [c EXCEPT ![i].result = 0]

L144 ==
    /\ pc = "L144"
    /\ ctx' = IF ctx[frame.ctx].result = 0 THEN ctx ELSE DelResult(ctx, frame.ctx)
    /\ pc' = IF ctx[frame.ctx].result = 0 THEN "AttributeError" ELSE "L145"
    /\ UNCHANGED <<env, heap, fwgrad, born, level, epoch, dicts, mods, frame>>

\* jvp: return gO.  It becomes the tangent of apply's output.
L145 ==
    /\ pc = "L145"
    /\ fwgrad' = [fwgrad EXCEPT ![frame.result] = [level |-> level, tangent |-> frame.gO]]
    /\ pc' = frame.ret
    /\ UNCHANGED <<env, heap, born, level, epoch, dicts, mods, ctx, frame>>

\* primal = torch.randn(10, 10, dtype=torch.double, requires_grad=True)
L149 ==
    /\ pc = "L149"
    /\ \E t \in Randn(TensorShape) :
          /\ Alloc(<<t>>, <<NoGrad>>)
          /\ env' = [env EXCEPT !.primal = Len(heap) + 1]
    /\ pc' = "L150"
    /\ UNCHANGED <<level, epoch, dicts, mods, ctx, frame>>

\* tangent = torch.randn(10, 10)
L150 ==
    /\ pc = "L150"
    /\ \E t \in Randn(TensorShape) :
          /\ Alloc(<<t>>, <<NoGrad>>)
          /\ env' = [env EXCEPT !.tangent = Len(heap) + 1]
    /\ pc' = "L152"
    /\ UNCHANGED <<level, epoch, dicts, mods, ctx, frame>>

\* with fwAD.dual_level():
L152 == pc = "L152" /\ EnterDualLevel("L153")

\* dual_input = fwAD.make_dual(primal, tangent)
L153 ==
    /\ pc = "L153"
    /\ LET m == MakeDual(heap, env.primal, env.tangent, level)
       IN  /\ Alloc(m.tensors, m.grads)
           /\ env' = [env EXCEPT !.dual_input = m.id]
    /\ pc' = "L154"
    /\ UNCHANGED <<level, epoch, dicts, mods, ctx, frame>>

\* dual_output = fn(dual_input): the call ...
L154 ==
    /\ pc = "L154"
    /\ Apply(env.dual_input, "L154Ret")
    /\ UNCHANGED <<env, heap, fwgrad, born, level, epoch, dicts, mods>>

\* ... and the assignment of what it returns
L154Ret ==
    /\ pc = "L154Ret"
    /\ env' = [env EXCEPT !.dual_output = frame.result]
    /\ pc' = "L155"
    /\ UNCHANGED <<heap, fwgrad, born, level, epoch, dicts, mods, ctx, frame>>

\* jvp = fwAD.unpack_dual(dual_output).tangent
L155 ==
    /\ pc = "L155"
    /\ env' = [env EXCEPT !.jvp = UnpackDual(heap, fwgrad, env.dual_output).tangent]
    /\ pc' = "L156"
    /\ UNCHANGED <<heap, fwgrad, born, level, epoch, dicts, mods, ctx, frame>>

\* the with block of line 152 ends
L156 == pc = "L156" /\ LeaveDualLevel("L165")

\* torch.autograd.gradcheck(Fn.apply, (primal,), check_forward_ad=True, ...):
\* for every entry k of the input, Fn.apply is called on the input with
\* entry k perturbed (the numerical derivative), and then, inside a dual
\* level of its own, on the input made dual with the k-th unit tangent.
OneHot(n, k) == [j \in 1..n |-> IF j = k THEN 1 ELSE 0]

L165 ==
    /\ pc = "L165"
    /\ frame' = [frame EXCEPT !.phase = "numerical", !.k = 0]
    /\ pc' = "GcNext"
    /\ UNCHANGED <<env, heap, fwgrad, born, level, epoch, dicts, mods, ctx>>

GcNumerical ==
    /\ pc = "GcNext"
    /\ frame.phase = "numerical"
    /\ LET t == heap[env.primal]
           n == Numel(t.shape)
       IN  IF frame.k < n
           THEN /\ Alloc(<<FromLogical(t.shape,
                             [j \in 1..n |-> Logical(t)[j] + OneHot(n, frame.k + 1)[j]])>>,
                         <<NoGrad>>)
                /\ ctx' = Append(ctx, [result |-> 0])
                /\ frame' = [frame EXCEPT !.k = @ + 1, !.ret = "GcNext",
                                          !.ctx = Len(ctx) + 1, !.foo = Len(heap) + 1,
                                          !.result = 0, !.gI = 0, !.gO = 0]
                /\ pc' = "L133"
           ELSE /\ frame' = [frame EXCEPT !.phase = "forward", !.k = 0]
                /\ pc' = "GcNext"
                /\ UNCHANGED <<heap, fwgrad, born, ctx>>
    /\ UNCHANGED <<env, level, epoch, dicts, mods>>

GcForward ==
    /\ pc = "GcNext"
    /\ frame.phase = "forward"
    /\ IF frame.k < Numel(heap[env.primal].shape)
       THEN /\ frame' = [frame EXCEPT !.k = @ + 1]
            /\ level' = level + 1
            /\ epoch' = epoch + 1
            /\ pc' = "GcDual"
       ELSE /\ frame' = [frame EXCEPT !.phase = "", !.k = 0]
            /\ pc' = "done"
            /\ UNCHANGED <<level, epoch>>
    /\ UNCHANGED <<env, heap, fwgrad, born, dicts, mods, ctx>>

GcDual ==
    /\ pc = "GcDual"
    /\ LET t  == heap[env.primal]
           e  == FromLogical(t.shape, OneHot(Numel(t.shape), frame.k))
           h1 == Append(heap, e)
           m  == MakeDual(h1, env.primal, Len(h1), level)
       IN  /\ Alloc(<<e>> \o m.tensors, <<NoGrad>> \o m.grads)
           /\ ctx' = Append(ctx, [result |-> 0])
           /\ frame' = [frame EXCEPT !.ret = "GcExit", !.ctx = Len(ctx) + 1,
                                     !.foo = m.id, !.result = 0, !.gI = 0, !.gO = 0]
    /\ pc' = "L133"
    /\ UNCHANGED <<env, level, epoch, dicts, mods>>

GcExit == pc = "GcExit" /\ LeaveDualLevel("GcNext")

InitCustom ==
    /\ pc = "L149"
    /\ env = EmptyEnv
    /\ heap = <<>>
    /\ fwgrad = <<>>
    /\ born = <<>>
    /\ level = -1
    /\ epoch = 0
    /\ dicts = EmptyDicts
    /\ mods = <<>>
    /\ ctx = <<>>
    /\ frame = NoFrame

NextCustom ==
    \/ L149 \/ L150 \/ L152 \/ L153 \/ L154 \/ L133 \/ L136 \/ L137
    \/ L141 \/ L144 \/ L145 \/ L154Ret \/ L155 \/ L156
    \/ L165 \/ GcNumerical \/ GcForward \/ GcDual \/ GcExit

SpecCustom == InitCustom /\ [][NextCustom]_vars


----------------------------------------------------------------------------
(* fn on arbitrary dual arguments: line 63 with both arguments drawn freely *)

InitFn ==
    /\ pc = "L63"
    /\ \E px \in Randn(TensorShape), tx \in Randn(TensorShape),
          py \in Randn(TensorShape), ty \in Randn(TensorShape) :
          LET h4 == <<px, tx, py, ty>>
              mx == MakeDual(h4, 1, 2, 0)
              h5 == h4 \o mx.tensors
              my == MakeDual(h5, 3, 4, 0)
          IN  /\ heap = h5 \o my.tensors
              /\ fwgrad = <<NoGrad, NoGrad, NoGrad, NoGrad>> \o mx.grads \o my.grads
              /\ born = <<0, 0, 0, 0, 1, 1>>
              /\ env = [EmptyEnv EXCEPT !.primal = 1, !.tangent = 2,
                                        !.dual_input = mx.id, !.plain_tensor = my.id]
    /\ level = 0
    /\ epoch = 1
    /\ dicts = EmptyDicts
    /\ mods = <<>>
    /\ ctx = <<>>
    /\ frame = NoFrame

NextFn == L63 \/ L67

SpecFn == InitFn /\ [][NextFn]_vars


----------------------------------------------------------------------------
(* Properties *)

\* Tensor `id` was created inside a dual_level context that has been left.
\* The script's contexts follow one another, so context e has been left
\* once a later one was entered or no context is active.
Exited(id) == born[id] # 0 /\ (born[id] < epoch \/ level < 0)

Entries(id) == Logical(heap[id])

Square(v) == [k \in 1..Len(v) |-> v[k] * v[k]]

\* C1: once the dual_level context is left, unpack_dual of every tensor
\* created in it (by make_dual or by computing on dual tensors) gives None
\* as the tangent - no error, no zero tensor - and still gives the primal:
\* that of dual_input is primal's entries, that of dual_output is
\* primal**2 + plain_tensor**2.
C1_NoTangentAfterExit ==
    /\ pc # "AssertionError"
    /\ \A id \in DOMAIN heap :
          Exited(id) => UnpackDual(heap, fwgrad, id).tangent = 0
    /\ (level < 0 /\ env.dual_input # 0) =>
          UnpackDual(heap, fwgrad, env.dual_input).primal = Entries(env.primal)
    /\ (level < 0 /\ env.dual_output # 0) =>
          UnpackDual(heap, fwgrad, env.dual_output).primal =
            [k \in 1..Numel(TensorShape) |->
               Square(Entries(env.primal))[k] + Square(Entries(env.plain_tensor))[k]]

\* The script has left its context; dual_output had a tangent inside it
\* (jvp holds it) and has none now.
C1_Witness ==
    /\ pc = "done"
    /\ env.jvp # 0
    /\ born[env.dual_output] = 1
    /\ born[env.dual_input] = 1
    /\ fwgrad[env.dual_output].tangent = 0
    /\ fwgrad[env.dual_input].tangent = 0

\* C2: inside the context, unpack_dual(make_dual(p, t)) gives p's entries as
\* the primal and a tangent with t's entries; the tangent is t itself when
\* t has p's layout (dual_input) and a distinct tensor with storage of its
\* own, neither tangent nor the view tangent.T, when it has not
\* (dual_input_alt).
C2_RoundTrip ==
    /\ (level >= 0 /\ env.dual_input # 0) =>
          LET u == UnpackDual(heap, fwgrad, env.dual_input)
          IN  /\ SameMeta(heap[env.tangent], heap[env.primal])
              /\ u.primal = Entries(env.primal)
              /\ u.tangent = env.tangent
    /\ (level >= 0 /\ env.dual_input_alt # 0) =>
          LET u  == UnpackDual(heap, fwgrad, env.dual_input_alt)
              tT == Transpose(heap[env.tangent], env.tangent)
          IN  /\ ~SameMeta(tT, heap[env.primal])
              /\ u.primal = Entries(env.primal)
              /\ u.tangent # 0
              /\ u.tangent # env.tangent
              /\ heap[u.tangent].base = 0
              /\ heap[u.tangent] # tT
              /\ ValueEqual(heap[u.tangent], tT)
              /\ SameMeta(heap[u.tangent], heap[env.primal])

\* Both dual tensors exist, and the tangent is not symmetric: the copy of
\* tangent.T must have moved entries.
C2_Witness ==
    /\ pc = "L62"
    /\ level = 0
    /\ fwgrad[env.dual_input].tangent = env.tangent
    /\ fwgrad[env.dual_input_alt].tangent \notin {0, env.tangent}
    /\ Logical(Transpose(heap[env.tangent], env.tangent)) # Entries(env.tangent)

\* C3: inside the context, fn(dual_input, plain_tensor) has the primal and
\* the tangent it would have had plain_tensor been given an all-zero
\* tangent, and its tangent is 2 * primal * tangent entry by entry: it does
\* not depend on plain_tensor.
C3_PlainAsZeroTangent ==
    (level >= 0 /\ env.dual_output # 0) =>
        LET x  == DualOf(heap, fwgrad, env.dual_input)
            y0 == [primal  |-> Entries(env.plain_tensor),
                   tangent |-> Some(Zeros(Numel(TensorShape)))]
            o  == DualOf(heap, fwgrad, env.dual_output)
        IN  /\ fwgrad[env.plain_tensor].tangent = 0
            /\ o = fn(x, y0)
            /\ o.tangent =
                 Some([k \in 1..Numel(TensorShape) |->
                         2 * Entries(env.primal)[k] * Entries(env.tangent)[k]])

\* fn has run on a dual and a plain tensor, and the result's tangent is not
\* all zero.
C3_Witness ==
    /\ pc = "L67"
    /\ fwgrad[env.plain_tensor].tangent = 0
    /\ fwgrad[env.dual_input].tangent # 0
    /\ fwgrad[env.dual_output].tangent # 0
    /\ \E k \in 1..Numel(TensorShape) :
          Entries(fwgrad[env.dual_output].tangent)[k] # 0
    /\ \E k \in 1..Numel(TensorShape) : Entries(env.plain_tensor)[k] # 0

\* C4: for fn(x, y) = x**2 + y**2 on dual values (x, tx) and (y, ty) inside
\* a context, entry by entry the primal of the result is x^2 + y^2 and its
\* tangent is 2*x*tx + 2*y*ty; where x = 3, tx = 1, y = 4, ty = 0 the
\* tangent is 6.
C4_FnOnDuals ==
    env.dual_output # 0 =>
        LET xx == env.dual_input
            yy == env.plain_tensor
            o  == env.dual_output
        IN  /\ fwgrad[o].tangent # 0
            /\ \A k \in 1..Numel(TensorShape) :
                  LET x  == Entries(xx)[k]
                      tx == Entries(fwgrad[xx].tangent)[k]
                      y  == Entries(yy)[k]
                      ty == Entries(fwgrad[yy].tangent)[k]
                  IN  /\ Entries(o)[k] = x * x + y * y
                      /\ Entries(fwgrad[o].tangent)[k] = 2 * x * tx + 2 * y * ty
                      /\ (x = 3 /\ tx = 1 /\ y = 4 /\ ty = 0) =>
                            Entries(fwgrad[o].tangent)[k] = 6

\* The scenario x = 3, tx = 1, y = 4, ty = 0 has been computed, with
\* tangent 6 and primal 25.
C4_Witness ==
    /\ env.dual_output # 0
    /\ \E k \in 1..Numel(TensorShape) :
          /\ Entries(env.dual_input)[k] = 3
          /\ Entries(fwgrad[env.dual_input].tangent)[k] = 1
          /\ Entries(env.plain_tensor)[k] = 4
          /\ Entries(fwgrad[env.plain_tensor].tangent)[k] = 0
          /\ Entries(fwgrad[env.dual_output].tangent)[k] = 6
          /\ Entries(env.dual_output)[k] = 25

\* C5: with the same parameters, tangents and input, the tangent of the
\* output of the patched module (jvp) and that of functional_call on a fresh
\* module (jvp2) are equal, and the script's assertion of it passes.
C5_StatefulEqualsStateless ==
    /\ pc \notin {"AssertionError", "TypeError"}
    /\ pc \in {"L116", "L118", "done"} => AllClose(heap, env.jvp, env.jvp2)

\* Both routes have run; the two tangents are different tensors, not all
\* zero, and the fresh module's own weight differs from the one passed in.
C5_Witness ==
    /\ pc = "done"
    /\ env.jvp # 0 /\ env.jvp2 # 0 /\ env.jvp # env.jvp2
    /\ \E k \in 1..Numel(OutShape) : Entries(env.jvp)[k] # 0
    /\ Len(mods) = 2
    /\ mods[1].params = EmptyDict
    /\ mods[1].attrs.weight # 0
    /\ mods[2].attrs = EmptyDict
    /\ ~ValueEqual(heap[mods[2].params.weight], heap[dicts.params.weight])

C9_ContextResult ==
    /\ pc # "AttributeError"
    /\ pc \in {"L141", "L144", "L145"} =>
          /\ frame.ctx = Len(ctx)
          /\ frame.result # 0
          /\ frame.gI # 0
          /\ frame.gI = fwgrad[frame.foo].tangent
    /\ pc \in {"L141", "L144"} => ctx[frame.ctx].result = frame.result
    /\ pc \in {"L144", "L145"} =>
          /\ frame.gO # 0
          /\ Entries(frame.gO) = Mul(Entries(frame.gI), Exp(Entries(frame.foo)))
    /\ pc = "L145" => ctx[frame.ctx].result = 0
    /\ (frame.gO # 0 /\ pc \notin {"L144"}) => ctx[frame.ctx].result = 0

\* jvp is about to return: it has computed a tangent that is not all zero
\* and has deleted the result from the context.
C9_Witness ==
    /\ pc = "L145"
    /\ frame.gO # 0
    /\ ctx[frame.ctx].result = 0
    /\ \E k \in 1..Numel(TensorShape) : Entries(frame.gO)[k] # 0

\* C10: leaving a context changes no name of the script and no tensor, and
\* removes tangent associations only; the tensor jvp names keeps its
\* entries in every later step, so it is still there to compare with jvp2
\* after the later context.
C10_ExitKeepsTangentValues ==
    [][/\ level' < level =>
             /\ env' = env
             /\ \A id \in DOMAIN heap : heap'[id] = heap[id]
             /\ \A id \in DOMAIN fwgrad : fwgrad'[id] \in {fwgrad[id], NoGrad}
       /\ (env.jvp # 0 /\ env'.jvp = env.jvp) => heap'[env.jvp] = heap[env.jvp]]_vars

\* jvp was taken in the first context and jvp2 in the second; both contexts
\* have been left, no tensor has a tangent any more, and jvp is not all zero.
C10_Witness ==
    /\ pc = "L118"
    /\ born[env.jvp] = 1
    /\ born[env.jvp2] = 2
    /\ \A id \in DOMAIN fwgrad : fwgrad[id] = NoGrad
    /\ \E k \in 1..Numel(OutShape) : Entries(env.jvp)[k] # 0

============================================================================
